---- MODULE Spec2Model ----
(***************************************************************************)
(* Weather application: the Location Record Store (SQL table `locations`)  *)
(* and the Location Cache (Redis) in front of it, as implemented in        *)
(* weather_app/models/location_model.py.                                   *)
(*                                                                         *)
(* Representation.                                                         *)
(*  - rows: the table, as the sequence of its rows; the primary key of a   *)
(*    row is its position (SQLite assigns max(id)+1, a rolled-back insert  *)
(*    consumes no id).  Float columns hold integer-valued floats.          *)
(*  - redis: the key space of the cache, a function from the keys that     *)
(*    exist to their value (a hash: field name -> text; or a string).      *)
(*    Byte strings are written as their ASCII text.                        *)
(*  - last: the call that was made last, its arguments and what the caller *)
(*    observed (outcome, returned value, whether the answer came from the  *)
(*    cache or from a store query).                                        *)
(*  - favorites, favorite_location: the fields of the one FavoritesModel   *)
(*    of the process (favorites_model.py); favorites is the Python list,   *)
(*    written as a sequence (Python position k is element k + 1).          *)
(*  - sessions: the session collection of the document store, a function   *)
(*    from the user ids that have a document to its favorites array.       *)
(*  - users: the table `users` (user_model.py), as the sequence of its     *)
(*    rows; salts and hashes are written as texts.                         *)
(*  - dirty: the favorite_locations texts assigned to user rows in         *)
(*    db.session and not committed, by user id.  The operations on         *)
(*    locations share db.session; they are specified together with user    *)
(*    operations only where dirty is empty.                                *)
(*  - pending: a get_location_by_id call that has queried the store and    *)
(*    has not yet evaluated its guard, with the row it was given.          *)
(***************************************************************************)
EXTENDS Integers, Sequences, FiniteSets, TLC

VARIABLES rows, redis, last, favorites, favorite_location, sessions, users, dirty, pending

vars == <<rows, redis, last, favorites, favorite_location, sessions, users, dirty, pending>>

\* the Favorites List and the session documents
favVars == <<favorites, favorite_location, sessions>>

\* the users table and the assignments to it that db.session has not committed
userVars == <<users, dirty>>

(***************************************************************************)
(* Bounds and input sets                                                   *)
(***************************************************************************)
MaxRows == 2

Names == {"Boston", "Ocean", "Paris"}
Lats == {42}
Lons == {71}
Temps == {34}
Winds == {-1, 0, 15}
Rains == {0}

\* ids a caller may pass: every id in use and one that no row has
Ids == 1..(MaxRows + 1)

\* the id under which an external entry may sit in the cache
SeedIds == {1}

\* Python's None where a str is expected
None == "<None>"

\* the optional name argument of get_location_by_id
NameArgs == {None, "Boston"}

\* keyword arguments of update_location: attribute names in call order, each
\* with the value KwValue gives it
KwValue(k) == CASE k = "current_temperature" -> 28
                [] k = "current_wind_speed" -> 14
                [] OTHER -> 1
Kwargs == {<<"current_temperature">>,
           <<"current_wind_speed">>,
           <<"current_temperature", "current_wind_speed">>,
           <<"battles">>,
           <<"current_temperature", "battles">>,
           <<"battles", "current_temperature">>}

(***************************************************************************)
(* The entity                                                              *)
(***************************************************************************)
\* the columns of Locations, in declaration order
Fields == {"id", "location", "latitude", "longitude", "current_temperature",
           "current_wind_speed", "current_rain", "deleted"}

\* Locations.__post_init__: the constructor rejects a negative wind speed
PostInitNeverRaises(current_wind_speed) == FALSE
PostInitRaises(current_wind_speed) == current_wind_speed < 0

\* str(v) of a float column value read back from the store
StrFloat(v) == ToString(v) \o ".0"

\* str(v) of a bool
StrBool(b) == IF b THEN "True" ELSE "False"

\* {k: str(v) for k, v in asdict(row).items()}
Encode(row) ==
    [id |-> ToString(row.id),
     location |-> row.location,
     latitude |-> StrFloat(row.latitude),
     longitude |-> StrFloat(row.longitude),
     current_temperature |-> StrFloat(row.current_temperature),
     current_wind_speed |-> StrFloat(row.current_wind_speed),
     current_rain |-> StrFloat(row.current_rain),
     deleted |-> StrBool(row.deleted)]

\* str.lower() on the texts a deleted field holds
Lower(s) == CASE s = "True" -> "true"
              [] s = "TRUE" -> "true"
              [] s = "False" -> "false"
              [] s = "FALSE" -> "false"
              [] OTHER -> s

(***************************************************************************)
(* The store and the cache, at their interface                             *)
(***************************************************************************)
\* cls.query.filter_by(id=...).first(): the row, or nothing
QueryFirstById(id) == IF id \in DOMAIN rows THEN <<rows[id]>> ELSE <<>>

\* the unique constraint on Locations.location
NameTakenAmongLive(location) ==
    \E i \in DOMAIN rows : rows[i].location = location /\ ~rows[i].deleted
NameTaken(location) == \E i \in DOMAIN rows : rows[i].location = location

\* redis_client.hgetall(key): the hash, {} when the key does not exist
HGetAll(key) == IF key \in DOMAIN redis THEN redis[key] ELSE <<>>

\* redis_client.get(key): the string, None when the key does not exist
RedisGet(key) == IF key \in DOMAIN redis THEN redis[key] ELSE None

\* redis_client.delete(key)
RedisDelete(r, key) == [k \in DOMAIN r \ {key} |-> r[k]]

\* redis_client.hset(key, mapping=...): sets the given fields of the hash
RedisHSet(r, key, mapping) ==
    LET old == IF key \in DOMAIN r THEN r[key] ELSE <<>>
        new == [f \in DOMAIN old \cup DOMAIN mapping |->
                    IF f \in DOMAIN mapping THEN mapping[f] ELSE old[f]]
    IN  [k \in DOMAIN r \cup {key} |-> IF k = key THEN new ELSE r[k]]

NoRet == "<None>"

\* no get_location_by_id call is between its query and its guard
Idle == [active |-> FALSE, id |-> 0, location |-> None, found |-> <<>>]

\* what the caller of an operation passed and observed
Result(op, id, name, kwargs, outcome, ret, src) ==
    [op |-> op, id |-> id, name |-> name, kwargs |-> kwargs,
     outcome |-> outcome, ret |-> ret, src |-> src]

Init ==
    /\ rows = <<>>
    /\ redis = <<>>
    /\ last = Result("init", 0, None, <<>>, "ok", NoRet, "none")
    /\ favorites = <<>>
    /\ favorite_location = 1
    /\ sessions = <<>>
    /\ users = <<>>
    /\ dirty = <<>>
    /\ pending = Idle

(***************************************************************************)
(* Operations                                                              *)
(***************************************************************************)
\* Locations.create_location
CreateLocation(location, latitude, longitude, current_temperature, current_wind_speed, current_rain) ==
    LET args == <<latitude, longitude, current_temperature,
                  current_wind_speed, current_rain>>
    IN  IF PostInitRaises(current_wind_speed)
        THEN /\ last' = Result("create", 0, location, args, "InvalidWind", NoRet, "none")
             /\ UNCHANGED <<rows, redis>>
        ELSE IF NameTaken(location)
        THEN \* IntegrityError: rollback, ValueError "already exists"
             /\ last' = Result("create", 0, location, args, "DuplicateName", NoRet, "none")
             /\ UNCHANGED <<rows, redis>>
        ELSE /\ Len(rows) < MaxRows
             /\ rows' = Append(rows,
                    [id |-> Len(rows) + 1,
                     location |-> location,
                     latitude |-> latitude,
                     longitude |-> longitude,
                     current_temperature |-> current_temperature,
                     current_wind_speed |-> current_wind_speed,
                     current_rain |-> current_rain,
                     deleted |-> FALSE])
             /\ last' = Result("create", 0, location, args, "ok", NoRet, "none")
             /\ UNCHANGED redis

\* update_cache_for_meal: the after_update listener, run by the commit of a
\* changed row
update_cache_for_meal(r, target) ==
    LET cache_key == "meal:" \o ToString(target.id)
    IN  IF target.deleted
        THEN RedisDelete(r, cache_key)
        ELSE RedisHSet(r, cache_key, Encode(target))

\* the checks of delete_meal on the row it queried: what it raises, or "ok"
DeleteNoRecheck(found) ==
    IF found = <<>> THEN "NotFound" ELSE "ok"
DeleteRaises(found) ==
    IF found = <<>> THEN "NotFound"
    ELSE IF found[1].deleted THEN "AlreadyDeleted"
    ELSE "ok"

\* Locations.delete_meal
DeleteMealToggles(location_id) ==
    LET found == QueryFirstById(location_id)
    IN  IF found = <<>>
        THEN /\ last' = Result("soft_delete", location_id, None, <<>>, "NotFound", NoRet, "store")
             /\ UNCHANGED <<rows, redis>>
        ELSE /\ rows' = [rows EXCEPT ![location_id].deleted = ~found[1].deleted]
             /\ redis' = update_cache_for_meal(redis, rows'[location_id])
             /\ last' = Result("soft_delete", location_id, None, <<>>, "ok", NoRet, "store")
DeleteMeal(location_id) ==
    LET found == QueryFirstById(location_id)
        raised == DeleteRaises(found)
    IN  IF raised # "ok"
        THEN /\ last' = Result("soft_delete", location_id, None, <<>>, raised, NoRet, "store")
             /\ UNCHANGED <<rows, redis>>
        ELSE /\ rows' = [rows EXCEPT ![location_id].deleted = TRUE]
             /\ redis' = update_cache_for_meal(redis, rows'[location_id])
             /\ last' = Result("soft_delete", location_id, None, <<>>, "ok", NoRet, "store")

\* The guard of the miss path of get_location_by_id, `not Locations or
\* location.deleted`: its second operand reads .deleted of the NAME argument
\* (None or a str), which has no such attribute.  "true", "false", or the
\* exception the evaluation raises.
MissGuardIgnoresDeleted(found, location) ==
    IF found = <<>> THEN "true" ELSE "false"
MissGuard(found, location) ==
    IF found = <<>> THEN "true" ELSE "AttributeError"

\* location_data['deleted'] = location_data.get('deleted', 'false').lower() == 'true'
CachedDeletedCaseSensitive(cached_location) ==
    (IF "deleted" \in DOMAIN cached_location
     THEN cached_location["deleted"] ELSE "false") = "true"
CachedDeleted(cached_location) ==
    Lower(IF "deleted" \in DOMAIN cached_location
          THEN cached_location["deleted"] ELSE "false") = "true"

\* the dict the hit path of get_location_by_id returns: the decoded texts of
\* the hash, with deleted converted to a bool
LocationData(cached_location) ==
    [k \in DOMAIN cached_location \cup {"deleted"} |->
        IF k = "deleted" THEN CachedDeleted(cached_location) ELSE cached_location[k]]

\* Locations.get_location_by_id
GetLocationById(location_id, location) ==
    LET cache_key == "location_" \o ToString(location_id)
        cached_location == HGetAll(cache_key)
    IN  IF DOMAIN cached_location # {}
        THEN LET deleted == CachedDeleted(cached_location)
                 location_data ==
                     [k \in DOMAIN cached_location \cup {"deleted"} |->
                         IF k = "deleted" THEN deleted ELSE cached_location[k]]
             IN  /\ last' = IF deleted
                            THEN Result("get_by_id", location_id, location, <<>>,
                                        "NotFound", NoRet, "cache")
                            ELSE Result("get_by_id", location_id, location, <<>>,
                                        "ok", location_data, "cache")
                 /\ UNCHANGED <<rows, redis>>
        ELSE LET found == QueryFirstById(location_id)
                 guard == MissGuard(found, location)
             IN  IF guard = "true"
                 THEN /\ last' = Result("get_by_id", location_id, location, <<>>,
                                        "NotFound", NoRet, "store")
                      /\ UNCHANGED <<rows, redis>>
                 ELSE IF guard = "AttributeError"
                 THEN /\ last' = Result("get_by_id", location_id, location, <<>>,
                                        "AttributeError", NoRet, "store")
                      /\ UNCHANGED <<rows, redis>>
                 ELSE /\ redis' = RedisHSet(redis, cache_key, Encode(found[1]))
                      /\ last' = Result("get_by_id", location_id, location, <<>>,
                                        "ok", found[1], "store")
                      /\ UNCHANGED rows

\* Locations.get_meal_by_name
GetMealByName(meal_name) ==
    LET cache_key == "meal_name:" \o meal_name
        meal_id == RedisGet(cache_key)
    IN  /\ last' = IF meal_id # None
                   THEN \* cls.get_meal_by_id: the class has no such method
                        Result("get_by_name", 0, meal_name, <<>>,
                               "AttributeError", NoRet, "cache")
                   ELSE \* filter_by(meal=...): the entity has no property `meal`
                        Result("get_by_name", 0, meal_name, <<>>,
                               "InvalidRequestError", NoRet, "none")
        /\ UNCHANGED <<rows, redis>>

\* `not location or location.deleted is True`
UpdateNotFoundMissingOnly(found) == found = <<>>
UpdateNotFound(found) == found = <<>> \/ found[1].deleted = TRUE

\* the row update_location commits: the keyword arguments are logged, and
\* none is assigned to the row
UpdatedRow(row, kwargs) == row

\* Locations.update_location
UpdateLocation(location_id, kwargs) ==
    LET found == QueryFirstById(location_id)
    IN  IF UpdateNotFound(found)
        THEN /\ last' = Result("update", location_id, None, kwargs, "NotFound", NoRet, "store")
             /\ UNCHANGED <<rows, redis>>
        ELSE LET row == UpdatedRow(found[1], kwargs)
             IN  /\ rows' = [rows EXCEPT ![location_id] = row]
                 \* the listener runs only for a row the session holds as changed
                 /\ redis' = IF row # found[1]
                             THEN update_cache_for_meal(redis, row) ELSE redis
                 /\ last' = Result("update", location_id, None, kwargs, "ok", NoRet, "store")

\* Texts of a cached deleted field, and a cache entry as the tests put it
\* under the id key (mock_redis_client.hgetall.return_value)
DeletedTexts == {"True", "true", "TRUE", "False"}
SeededEntry(id, deletedText) ==
    [id |-> ToString(id),
     location |-> "Boston",
     latitude |-> "42.3601",
     longitude |-> "71.0589",
     current_temperature |-> "34",
     current_wind_speed |-> "15",
     current_rain |-> "0",
     deleted |-> deletedText]

\* An id-keyed entry is present in Redis without this process having written it
ExternalHSet(id, deletedText) ==
    /\ redis' = RedisHSet(redis, "location_" \o ToString(id), SeededEntry(id, deletedText))
    /\ last' = Result("external_hset", id, None, <<>>, "ok", NoRet, "none")
    /\ UNCHANGED rows

Create ==
    \E n \in Names, la \in Lats, lo \in Lons, t \in Temps, w \in Winds, r \in Rains :
        CreateLocation(n, la, lo, t, w, r) /\ UNCHANGED <<favVars, userVars, pending>>
SoftDelete == \E id \in Ids : DeleteMeal(id) /\ UNCHANGED <<favVars, userVars, pending>>
GetById == \E id \in Ids, n \in NameArgs : GetLocationById(id, n) /\ UNCHANGED <<favVars, userVars, pending>>
GetByName == \E n \in Names : GetMealByName(n) /\ UNCHANGED <<favVars, userVars, pending>>
Update == \E id \in Ids, kw \in Kwargs : UpdateLocation(id, kw) /\ UNCHANGED <<favVars, userVars, pending>>
Seed == \E id \in SeedIds, d \in DeletedTexts : ExternalHSet(id, d) /\ UNCHANGED <<favVars, userVars, pending>>

Next == Create \/ SoftDelete \/ GetById \/ GetByName \/ Update

Spec == Init /\ [][Next]_vars

\* the same program with a Redis that already holds id-keyed entries
NextSeeded == Next \/ Seed

SpecSeeded == Init /\ [][NextSeeded]_vars

\* A name-index entry is present in Redis without this process having written
\* it (mock_redis_client.get.return_value = str(location.id).encode())
ExternalSet(name, id) ==
    /\ redis' = [k \in DOMAIN redis \cup {"meal_name:" \o name} |->
                    IF k = "meal_name:" \o name THEN ToString(id) ELSE redis[k]]
    /\ last' = Result("external_set", id, name, <<>>, "ok", NoRet, "none")
    /\ UNCHANGED rows

\* the name whose index entry may sit in the cache
SeedNames == {"Boston"}
SeedName == \E n \in SeedNames, id \in Ids : ExternalSet(n, id) /\ UNCHANGED <<favVars, userVars, pending>>

\* the same program with a Redis that already holds name-index entries
NextIndexed == Next \/ SeedName

SpecIndexed == Init /\ [][NextIndexed]_vars

(***************************************************************************)
(* get_location_by_id running concurrently with the writers: the call in   *)
(* two steps, with the other operations free to run in between             *)
(***************************************************************************)
\* get_location_by_id from its cache lookup to its store query, on a miss
BeginGetLocationById(location_id, location) ==
    LET cache_key == "location_" \o ToString(location_id)
        cached_location == HGetAll(cache_key)
    IN  /\ ~pending.active
        /\ DOMAIN cached_location = {}
        /\ pending' = [active |-> TRUE, id |-> location_id, location |-> location,
                       found |-> QueryFirstById(location_id)]
        /\ last' = Result("begin_get_by_id", location_id, location, <<>>, "ok", NoRet, "store")
        /\ UNCHANGED <<rows, redis>>

\* get_location_by_id from its guard on, with the row its query returned
FinishGetLocationById ==
    LET cache_key == "location_" \o ToString(pending.id)
        found == pending.found
        guard == MissGuard(found, pending.location)
    IN  /\ pending.active
        /\ pending' = Idle
        /\ IF guard = "true"
           THEN /\ last' = Result("finish_get_by_id", pending.id, pending.location, <<>>,
                                  "NotFound", NoRet, "store")
                /\ UNCHANGED <<rows, redis>>
           ELSE IF guard = "AttributeError"
           THEN /\ last' = Result("finish_get_by_id", pending.id, pending.location, <<>>,
                                  "AttributeError", NoRet, "store")
                /\ UNCHANGED <<rows, redis>>
           ELSE /\ redis' = RedisHSet(redis, cache_key, Encode(found[1]))
                /\ last' = Result("finish_get_by_id", pending.id, pending.location, <<>>,
                                  "ok", found[1], "store")
                /\ UNCHANGED rows

BeginGetById ==
    \E id \in Ids, n \in NameArgs :
        BeginGetLocationById(id, n) /\ UNCHANGED <<favVars, userVars>>
FinishGetById == FinishGetLocationById /\ UNCHANGED <<favVars, userVars>>

NextRace == Create \/ SoftDelete \/ Update \/ BeginGetById \/ FinishGetById

SpecRace == Init /\ [][NextRace]_vars

(***************************************************************************)
(* The Favorites List (the FavoritesModel that favorites_model.py defines  *)
(* last, which is the one in effect) and the session bridge                *)
(***************************************************************************)
MaxFavId == 2

\* ids of the locations a caller may add, one of them negative
FavIds == -1..MaxFavId

\* positions a caller may pass: negative, 0, every position in use, and beyond
Indexes == -1..(MaxFavId + 2)

UserIds == {1, 2}

\* a Locations instance as the tests build one
SampleLocation(id, name) ==
    [id |-> id, location |-> name, latitude |-> 42, longitude |-> 71,
     current_temperature |-> 34, current_wind_speed |-> 15, current_rain |-> 0,
     deleted |-> FALSE]

\* the locations a caller may add: one per id, and a second object with id 1
FavSamples == {SampleLocation(i, "Boston") : i \in FavIds} \cup {SampleLocation(1, "New York")}

\* the arguments of add: a Locations instance, a dict of its fields, or
\* something else
AddArgs == {<<"Locations", l>> : l \in FavSamples}
             \cup {<<"dict", l>> : l \in FavSamples}
             \cup {<<"other", SampleLocation(1, "Boston")>>}

\* l[k] of a Python list: the element, for k in [-len, len)
PyInRange(l, k) == -Len(l) <= k /\ k < Len(l)
PyIndex(l, k) == IF k < 0 THEN l[Len(l) + k + 1] ELSE l[k + 1]

\* del l[k] of a Python list, k in range
PyDelOneBased(l, k) ==
    LET p == IF k < 0 THEN Len(l) + k + 2 ELSE k + 2
    IN  [i \in 1..(Len(l) - 1) |-> IF i < p THEN l[i] ELSE l[i + 1]]
PyDel(l, k) ==
    LET p == IF k < 0 THEN Len(l) + k + 1 ELSE k + 1
    IN  [i \in 1..(Len(l) - 1) |-> IF i < p THEN l[i] ELSE l[i + 1]]

\* [i for i in favorites if i.id != location_id]
WithoutId(favs, location_id) == SelectSeq(favs, LAMBDA f : f.id # location_id)

\* FavoritesModel.check_if_empty raises
CheckIfEmptyNever(favs) == FALSE
CheckIfEmptyRaises(favs) == favs = <<>>

\* FavoritesModel.validate_location_id raises
ValidateLocationIdRaises(favs, location_id, check_in_favorites) ==
    \/ location_id < 0
    \/ check_in_favorites /\ \A i \in DOMAIN favs : favs[i].id # location_id

\* FavoritesModel.validate_index raises
ValidateIndexZeroBased(favs, index) == index < 0 \/ index > Len(favs) - 1
ValidateIndexRaises(favs, index) == index < 1 \/ index > Len(favs)

\* what add_location_to_favorites raises for an argument, or "ok"
AddOutcomeNoDuplicateCheck(favs, kind, loc) ==
    IF kind = "dict" /\ PostInitRaises(loc.current_wind_speed) THEN "InvalidWind"
    ELSE IF kind = "other" THEN "TypeError"
    ELSE IF ValidateLocationIdRaises(favs, loc.id, FALSE) THEN "InvalidId"
    ELSE "ok"
AddOutcome(favs, kind, loc) ==
    IF kind = "dict" /\ PostInitRaises(loc.current_wind_speed) THEN "InvalidWind"
    ELSE IF kind = "other" THEN "TypeError"
    ELSE IF ValidateLocationIdRaises(favs, loc.id, FALSE) THEN "InvalidId"
    ELSE IF \E i \in DOMAIN favs : favs[i].id = loc.id THEN "DuplicateId"
    ELSE "ok"

\* FavoritesModel.add_location_to_favorites
AddLocationToFavoritesFront(kind, loc) ==
    LET raised == AddOutcome(favorites, kind, loc)
    IN  /\ favorites' = IF raised = "ok" THEN <<loc>> \o favorites ELSE favorites
        /\ last' = Result("add", loc.id, loc.location, <<kind>>, raised, NoRet, "none")
        /\ UNCHANGED <<favorite_location, sessions>>
AddLocationToFavorites(kind, loc) ==
    LET raised == AddOutcome(favorites, kind, loc)
    IN  /\ favorites' = IF raised = "ok" THEN Append(favorites, loc) ELSE favorites
        /\ last' = Result("add", loc.id, loc.location, <<kind>>, raised, NoRet, "none")
        /\ UNCHANGED <<favorite_location, sessions>>

\* FavoritesModel.remove_location_by_location_id
RemoveLocationByLocationId(location_id) ==
    LET raised == IF CheckIfEmptyRaises(favorites) THEN "EmptyList"
                  ELSE IF ValidateLocationIdRaises(favorites, location_id, TRUE) THEN "InvalidId"
                  ELSE "ok"
    IN  /\ favorites' = IF raised = "ok" THEN WithoutId(favorites, location_id) ELSE favorites
        /\ last' = Result("remove_by_id", location_id, None, <<>>, raised, NoRet, "none")
        /\ UNCHANGED <<favorite_location, sessions>>

\* FavoritesModel.remove_location_by_index
RemoveLocationByIndex(index) ==
    LET raised == IF CheckIfEmptyRaises(favorites) THEN "EmptyList"
                  ELSE IF ValidateIndexRaises(favorites, index) THEN "InvalidIndex"
                  ELSE IF ~PyInRange(favorites, index - 1) THEN "IndexError"
                  ELSE "ok"
        favorites_index == index - 1
    IN  /\ favorites' = IF raised = "ok" THEN PyDel(favorites, favorites_index) ELSE favorites
        /\ last' = Result("remove_by_index", index, None, <<>>, raised, NoRet, "none")
        /\ UNCHANGED <<favorite_location, sessions>>

\* FavoritesModel.clear_favorites
ClearFavoritesResetsCurrent ==
    /\ favorites' = <<>>
    /\ favorite_location' = 1
    /\ last' = Result("clear", 0, None, <<>>, "ok", NoRet, "none")
    /\ UNCHANGED sessions
ClearFavorites ==
    /\ favorites' = <<>>
    /\ last' = Result("clear", 0, None, <<>>, "ok", NoRet, "none")
    /\ UNCHANGED <<favorite_location, sessions>>

\* FavoritesModel.get_current_favorite, through get_location_by_index
GetCurrentFavorite ==
    LET index == favorite_location
        raised == IF CheckIfEmptyRaises(favorites) THEN "EmptyList"
                  ELSE IF ValidateIndexRaises(favorites, index) THEN "InvalidIndex"
                  ELSE IF ~PyInRange(favorites, index - 1) THEN "IndexError"
                  ELSE "ok"
    IN  /\ last' = Result("get_current", index, None, <<>>, raised,
                          IF raised = "ok" THEN PyIndex(favorites, index - 1) ELSE NoRet,
                          "none")
        /\ UNCHANGED <<favorites, favorite_location, sessions>>

\* FavoritesModel.set_favorite_by_index
SetFavoriteByIndex(index) ==
    /\ favorite_location' = index
    /\ last' = Result("set_current", index, None, <<>>, "ok", NoRet, "none")
    /\ UNCHANGED <<favorites, sessions>>

\* the loop of login_user over the stored favorites, from an emptied list:
\* the list it leaves and the exception that ended it, or "ok"
RECURSIVE LoadFavoritesReversed(_, _, _)
LoadFavoritesReversed(favs, stored, i) ==
    IF i > Len(stored) THEN [favs |-> favs, outcome |-> "ok"]
    ELSE LET raised == AddOutcome(favs, "dict", stored[i])
         IN  IF raised # "ok" THEN [favs |-> favs, outcome |-> raised]
             ELSE LoadFavoritesReversed(<<stored[i]>> \o favs, stored, i + 1)
RECURSIVE LoadFavorites(_, _, _)
LoadFavorites(favs, stored, i) ==
    IF i > Len(stored) THEN [favs |-> favs, outcome |-> "ok"]
    ELSE LET raised == AddOutcome(favs, "dict", stored[i])
         IN  IF raised # "ok" THEN [favs |-> favs, outcome |-> raised]
             ELSE LoadFavorites(Append(favs, stored[i]), stored, i + 1)

\* login_user: the list and the collection it leaves, and what it raises
LoginUserResult(user_id) ==
    IF user_id \in DOMAIN sessions
    THEN LET loaded == LoadFavorites(<<>>, sessions[user_id], 1)
         IN  [favorites |-> loaded.favs, sessions |-> sessions, outcome |-> loaded.outcome]
    ELSE [favorites |-> favorites,
          sessions |-> [u \in DOMAIN sessions \cup {user_id} |->
                           IF u = user_id THEN <<>> ELSE sessions[u]],
          outcome |-> "ok"]

\* login_user
LoginUserClearsFirst(user_id) ==
    IF user_id \in DOMAIN sessions
    THEN LET loaded == LoadFavorites(<<>>, sessions[user_id], 1)
         IN  /\ favorites' = loaded.favs
             /\ last' = Result("login", user_id, None, <<>>, loaded.outcome, NoRet, "none")
             /\ UNCHANGED <<favorite_location, sessions>>
    ELSE /\ sessions' = [u \in DOMAIN sessions \cup {user_id} |->
                            IF u = user_id THEN <<>> ELSE sessions[u]]
         /\ favorites' = <<>>
         /\ last' = Result("login", user_id, None, <<>>, "ok", NoRet, "none")
         /\ UNCHANGED favorite_location
LoginUser(user_id) ==
    LET done == LoginUserResult(user_id)
    IN  /\ favorites' = done.favorites
        /\ sessions' = done.sessions
        /\ last' = Result("login", user_id, None, <<>>, done.outcome, NoRet, "none")
        /\ UNCHANGED favorite_location

\* favorite.to_dict() of a Locations instance: the class defines no to_dict
ToDictFields(favorite) == <<"ok", favorite>>
ToDict(favorite) == <<"raise", "AttributeError">>

\* logout_user
LogoutUser(user_id) ==
    IF CheckIfEmptyRaises(favorites)
    THEN /\ last' = Result("logout", user_id, None, <<>>, "EmptyList", NoRet, "none")
         /\ UNCHANGED favVars
    ELSE LET favorites_data == [i \in DOMAIN favorites |-> ToDict(favorites[i])]
         IN  IF \E i \in DOMAIN favorites_data : favorites_data[i][1] = "raise"
             THEN /\ last' = Result("logout", user_id, None, <<>>, "AttributeError", NoRet, "none")
                  /\ UNCHANGED favVars
             ELSE IF user_id \notin DOMAIN sessions
             THEN \* matched_count == 0
                  /\ last' = Result("logout", user_id, None, <<>>, "UserNotFound", NoRet, "none")
                  /\ UNCHANGED favVars
             ELSE /\ sessions' = [sessions EXCEPT ![user_id] =
                                     [i \in DOMAIN favorites_data |-> favorites_data[i][2]]]
                  /\ favorites' = <<>>
                  /\ last' = Result("logout", user_id, None, <<>>, "ok", NoRet, "none")
                  /\ UNCHANGED favorite_location

Add == \E a \in AddArgs : AddLocationToFavorites(a[1], a[2]) /\ UNCHANGED <<rows, redis, userVars, pending>>
RemoveById == \E id \in FavIds : RemoveLocationByLocationId(id) /\ UNCHANGED <<rows, redis, userVars, pending>>
RemoveByIndex == \E i \in Indexes : RemoveLocationByIndex(i) /\ UNCHANGED <<rows, redis, userVars, pending>>
ClearNonEmptyOnly ==
    /\ IF CheckIfEmptyRaises(favorites)
       THEN /\ last' = Result("clear", 0, None, <<>>, "EmptyList", NoRet, "none")
            /\ UNCHANGED favVars
       ELSE ClearFavorites
    /\ UNCHANGED <<rows, redis, userVars, pending>>
Clear == ClearFavorites /\ UNCHANGED <<rows, redis, userVars, pending>>
GetCurrent == GetCurrentFavorite /\ UNCHANGED <<rows, redis, userVars, pending>>
SetCurrent == \E i \in Indexes : SetFavoriteByIndex(i) /\ UNCHANGED <<rows, redis, userVars, pending>>
Login == \E u \in UserIds : LoginUser(u) /\ UNCHANGED <<rows, redis, userVars, pending>>
Logout == \E u \in UserIds : LogoutUser(u) /\ UNCHANGED <<rows, redis, userVars, pending>>

NextFav ==
    Add \/ RemoveById \/ RemoveByIndex \/ Clear \/ GetCurrent \/ SetCurrent \/ Login \/ Logout

SpecFav == Init /\ [][NextFav]_vars

\* session documents another process left in the document store, as the
\* tests' find_one mocks return them: favorites in stored order, one of them
\* with an id stored twice
SessionDocs ==
    { <<SampleLocation(1, "Boston"), SampleLocation(2, "Boston")>>,
      <<SampleLocation(1, "Boston"), SampleLocation(1, "New York")>> }

SeedUsers == {1}

ExternalSession(user_id, doc) ==
    /\ sessions' = [u \in DOMAIN sessions \cup {user_id} |->
                       IF u = user_id THEN doc ELSE sessions[u]]
    /\ last' = Result("external_session", user_id, None, <<>>, "ok", NoRet, "none")
    /\ UNCHANGED <<favorites, favorite_location>>

SeedSession ==
    \E u \in SeedUsers, doc \in SessionDocs : ExternalSession(u, doc) /\ UNCHANGED <<rows, redis, userVars, pending>>

NextFavSeeded == NextFav \/ SeedSession

SpecFavSeeded == Init /\ [][NextFavSeeded]_vars

\* session documents as a logout leaves them: the favorites of a list, in
\* list order
StoredDocs ==
    { <<SampleLocation(1, "Boston"), SampleLocation(2, "Boston")>>,
      <<SampleLocation(2, "Boston"), SampleLocation(1, "New York")>> }

SeedStored ==
    \E u \in SeedUsers, doc \in StoredDocs : ExternalSession(u, doc) /\ UNCHANGED <<rows, redis, userVars, pending>>

NextFavStored == NextFav \/ SeedStored

SpecFavStored == Init /\ [][NextFavStored]_vars

(***************************************************************************)
(* The weather functions of the Favorites List                             *)
(***************************************************************************)
\* the attributes of a Locations instance that the weather snapshot reads
WeatherAttrs ==
    <<"location", "latitude", "longitude", "current_temperature",
      "current_wind_speed", "current_uvi">>

\* FavoritesModel.get_weather_for_location: the list it returns, or the
\* exception of reading an attribute the instance does not have
GetWeatherForLocation(location) ==
    IF \E i \in DOMAIN WeatherAttrs : WeatherAttrs[i] \notin DOMAIN location
    THEN <<"raise", "AttributeError">>
    ELSE <<"ok", [i \in DOMAIN WeatherAttrs |-> location[WeatherAttrs[i]]]>>

\* weathers = weathers + get_weather_for_location(favorites[i]), from i on
RECURSIVE WeatherLoop(_, _, _)
WeatherLoop(favs, i, weathers) ==
    IF i > Len(favs) THEN <<"ok", weathers>>
    ELSE LET one == GetWeatherForLocation(favs[i])
         IN  IF one[1] = "raise" THEN one
             ELSE WeatherLoop(favs, i + 1, weathers \o one[2])

\* FavoritesModel.get_weather_for_all_favorites
GetWeatherForAllFavorites ==
    LET done == WeatherLoop(favorites, 1, <<>>)
    IN  /\ last' = IF done[1] = "raise"
                   THEN Result("weather_all", 0, None, <<>>, done[2], NoRet, "none")
                   ELSE Result("weather_all", 0, None, <<>>, "ok", done[2], "none")
        /\ UNCHANGED favVars

\* FavoritesModel.get_weather_for_favorite
GetWeatherForFavorite ==
    LET index == favorite_location
        raised == IF CheckIfEmptyRaises(favorites) THEN "EmptyList"
                  ELSE IF ValidateIndexRaises(favorites, index) THEN "InvalidIndex"
                  ELSE IF ~PyInRange(favorites, index - 1) THEN "IndexError"
                  ELSE "ok"
        one == GetWeatherForLocation(PyIndex(favorites, index - 1))
    IN  /\ last' = IF raised # "ok"
                   THEN Result("weather_current", index, None, <<>>, raised, NoRet, "none")
                   ELSE IF one[1] = "raise"
                   THEN Result("weather_current", index, None, <<>>, one[2], NoRet, "none")
                   ELSE Result("weather_current", index, None, <<>>, "ok", one[2], "none")
        /\ UNCHANGED favVars

WeatherAll == GetWeatherForAllFavorites /\ UNCHANGED <<rows, redis, userVars, pending>>
WeatherCurrent == GetWeatherForFavorite /\ UNCHANGED <<rows, redis, userVars, pending>>

NextWeather == Add \/ RemoveByIndex \/ SetCurrent \/ WeatherAll \/ WeatherCurrent

SpecWeather == Init /\ [][NextWeather]_vars

(***************************************************************************)
(* The Credential Store (user_model.py) and the login route (app.py)       *)
(***************************************************************************)
Usernames == {"alice", "bob"}
Passwords == {"pw1", "wrong"}

\* os.urandom(16).hex(): texts of one length
Salts == {"a1", "b2"}

\* hashlib.sha256(text.encode()).hexdigest(), collisions aside: a digest
\* that determines its text
Sha256(text) == "sha256(" \o text \o ")"

\* Users._generate_hashed_password, for the salt os.urandom gave
GenerateHashedPassword(password, salt) == <<salt, Sha256(password \o salt)>>

\* cls.query.filter_by(username=username).first(): the row, or nothing
QueryFirstByUsername(username) ==
    LET found == SelectSeq(users, LAMBDA u : u.username = username)
    IN  IF found = <<>> THEN <<>> ELSE <<found[1]>>

\* db.session.commit(): the uncommitted assignments reach the table
Commit(table, assigned) ==
    [i \in DOMAIN table |->
        IF table[i].id \in DOMAIN assigned
        THEN [table[i] EXCEPT !.favorite_locations = assigned[table[i].id]]
        ELSE table[i]]

\* Users.create_user
CreateUser(username, password, salt) ==
    LET hashed == GenerateHashedPassword(password, salt)
    IN  IF QueryFirstByUsername(username) # <<>>
        THEN \* IntegrityError: rollback, ValueError "already exists"
             /\ last' = Result("create_user", 0, username, <<password>>,
                               "DuplicateUser", NoRet, "none")
             /\ dirty' = <<>>
             /\ users' = users
        ELSE /\ users' = Append(Commit(users, dirty),
                    [id |-> Len(users) + 1, username |-> username,
                     salt |-> hashed[1], password |-> hashed[2],
                     favorite_locations |-> <<>>])
             /\ dirty' = <<>>
             /\ last' = Result("create_user", 0, username, <<password>>, "ok", NoRet, "none")

\* hashed_password == user.password, of check_password
PasswordMatchesUnsalted(user, password) == Sha256(password) = user.password
PasswordMatches(user, password) == Sha256(password \o user.salt) = user.password

\* Users.check_password
CheckPassword(username, password) ==
    LET found == QueryFirstByUsername(username)
    IN  /\ last' = IF found = <<>>
                   THEN Result("check_password", 0, username, <<password>>,
                               "UserNotFound", NoRet, "none")
                   ELSE Result("check_password", found[1].id, username, <<password>>,
                               "ok", PasswordMatches(found[1], password), "none")
        /\ UNCHANGED userVars

\* request bodies of POST /api/login: without the two keys, or with them
Payloads ==
    {[complete |-> FALSE, username |-> None, password |-> None]}
      \cup {[complete |-> TRUE, username |-> u, password |-> p] :
               u \in Usernames, p \in Passwords}

\* the login route of app.py: the status it answers with
LoginRouteLoadsFirst(data) ==
    LET found == QueryFirstByUsername(data.username)
        done == LoginUserResult(found[1].id)
    IN  IF ~data.complete
        THEN /\ last' = Result("http_login", 0, data.username, <<data.password>>,
                               "BadRequest", 400, "none")
             /\ UNCHANGED <<userVars, favorites, favorite_location, sessions>>
        ELSE IF found = <<>>
        THEN /\ last' = Result("http_login", 0, data.username, <<data.password>>,
                               "UserNotFound", 500, "none")
             /\ UNCHANGED <<userVars, favorites, favorite_location, sessions>>
        ELSE /\ favorites' = done.favorites
             /\ sessions' = done.sessions
             /\ last' = IF ~PasswordMatches(found[1], data.password)
                        THEN Result("http_login", found[1].id, data.username,
                                    <<data.password>>, "Unauthorized", 401, "none")
                        ELSE Result("http_login", found[1].id, data.username,
                                    <<data.password>>, done.outcome,
                                    IF done.outcome = "ok" THEN 200 ELSE 500, "none")
             /\ UNCHANGED <<userVars, favorite_location>>
LoginRoute(data) ==
    LET found == QueryFirstByUsername(data.username)
        done == LoginUserResult(found[1].id)
    IN  IF ~data.complete
        THEN \* BadRequest, raised outside the try
             /\ last' = Result("http_login", 0, data.username, <<data.password>>,
                               "BadRequest", 400, "none")
             /\ UNCHANGED <<userVars, favorites, favorite_location, sessions>>
        ELSE IF found = <<>>
        THEN \* the ValueError of check_password, caught by `except Exception`
             /\ last' = Result("http_login", 0, data.username, <<data.password>>,
                               "UserNotFound", 500, "none")
             /\ UNCHANGED <<userVars, favorites, favorite_location, sessions>>
        ELSE IF ~PasswordMatches(found[1], data.password)
        THEN /\ last' = Result("http_login", found[1].id, data.username, <<data.password>>,
                               "Unauthorized", 401, "none")
             /\ UNCHANGED <<userVars, favorites, favorite_location, sessions>>
        ELSE /\ favorites' = done.favorites
             /\ sessions' = done.sessions
             /\ last' = Result("http_login", found[1].id, data.username, <<data.password>>,
                               done.outcome, IF done.outcome = "ok" THEN 200 ELSE 500, "none")
             /\ UNCHANGED <<userVars, favorite_location>>

Register ==
    \E u \in Usernames, p \in Passwords, salt \in Salts :
        CreateUser(u, p, salt) /\ UNCHANGED <<rows, redis, favVars, pending>>
Check ==
    \E u \in Usernames, p \in Passwords :
        CheckPassword(u, p) /\ UNCHANGED <<rows, redis, favVars, pending>>
HttpLogin == \E data \in Payloads : LoginRoute(data) /\ UNCHANGED <<rows, redis, pending>>

NextUser == Register \/ Check \/ HttpLogin

SpecUser == Init /\ [][NextUser]_vars

(***************************************************************************)
(* The favorite-location names of a user (user_model.py).  A text is the   *)
(* sequence of its pieces: a name, or the separator ","; "" is <<>>.       *)
(***************************************************************************)
FavoriteNames == {"Boston", "Paris"}

Comma == ","

\* text.split(",")
RECURSIVE Split(_)
Split(text) ==
    IF \A k \in DOMAIN text : text[k] # Comma THEN <<text>>
    ELSE LET k == CHOOSE k \in DOMAIN text :
                      text[k] = Comma /\ \A j \in 1..(k - 1) : text[j] # Comma
         IN  <<SubSeq(text, 1, k - 1)>> \o Split(SubSeq(text, k + 1, Len(text)))

\* ",".join(locations)
RECURSIVE Join(_)
Join(locations) ==
    IF locations = <<>> THEN <<>>
    ELSE IF Len(locations) = 1 THEN locations[1]
    ELSE locations[1] \o <<Comma>> \o Join(Tail(locations))

\* x in locations
InList(locations, x) == \E k \in DOMAIN locations : locations[k] = x

\* locations.remove(x): without the first x
ListRemove(locations, x) ==
    LET k == CHOOSE k \in DOMAIN locations :
                 locations[k] = x /\ \A j \in 1..(k - 1) : locations[j] # x
    IN  SubSeq(locations, 1, k - 1) \o SubSeq(locations, k + 1, Len(locations))

\* user.favorite_locations as db.session holds it
FavoriteLocationsOf(user) ==
    IF user.id \in DOMAIN dirty THEN dirty[user.id] ELSE user.favorite_locations

\* user.favorite_locations = text, not yet committed
Assign(user, text) ==
    [i \in DOMAIN dirty \cup {user.id} |-> IF i = user.id THEN text ELSE dirty[i]]

\* Users.add_favorite_location
AddFavoriteLocation(username, location) ==
    LET found == QueryFirstByUsername(username)
        text == FavoriteLocationsOf(found[1])
    IN  IF found = <<>>
        THEN /\ last' = Result("add_name", 0, username, <<location>>, "UserNotFound", NoRet, "none")
             /\ UNCHANGED userVars
        ELSE /\ last' = Result("add_name", found[1].id, username, <<location>>, "ok", NoRet, "none")
             /\ IF text = <<>>
                THEN \* assigned, and no commit on this path
                     /\ dirty' = Assign(found[1], <<location>>)
                     /\ UNCHANGED users
                ELSE IF ~InList(Split(text), <<location>>)
                THEN /\ users' = Commit(users, Assign(found[1], text \o <<Comma, location>>))
                     /\ dirty' = <<>>
                ELSE UNCHANGED userVars

\* Users.remove_favorite_location
RemoveFavoriteLocation(username, location) ==
    LET found == QueryFirstByUsername(username)
        text == FavoriteLocationsOf(found[1])
        locations == Split(text)
        raised == IF found = <<>> THEN "UserNotFound"
                  ELSE IF text = <<>> THEN "NoFavorites"
                  ELSE IF ~InList(locations, <<location>>) THEN "NotFavorite"
                  ELSE "ok"
    IN  /\ last' = Result("remove_name", IF found = <<>> THEN 0 ELSE found[1].id,
                          username, <<location>>, raised, NoRet, "none")
        /\ IF raised = "ok"
           THEN /\ users' = Commit(users, Assign(found[1], Join(ListRemove(locations, <<location>>))))
                /\ dirty' = <<>>
           ELSE UNCHANGED userVars

\* Users.get_favorite_locations
GetFavoriteLocations(username) ==
    LET found == QueryFirstByUsername(username)
        text == FavoriteLocationsOf(found[1])
    IN  /\ last' = IF found = <<>>
                   THEN Result("get_names", 0, username, <<>>, "UserNotFound", NoRet, "none")
                   ELSE Result("get_names", found[1].id, username, <<>>, "ok",
                               \* "" for an empty field, else the list of names
                               IF text = <<>> THEN <<>> ELSE Split(text), "none")
        /\ UNCHANGED userVars

\* the users of the favorite-name operations are created with one password
RegisterOne ==
    \E u \in Usernames :
        CreateUser(u, "pw1", "a1") /\ UNCHANGED <<rows, redis, favVars, pending>>
AddName ==
    \E u \in Usernames, n \in FavoriteNames :
        AddFavoriteLocation(u, n) /\ UNCHANGED <<rows, redis, favVars, pending>>
RemoveName ==
    \E u \in Usernames, n \in FavoriteNames :
        RemoveFavoriteLocation(u, n) /\ UNCHANGED <<rows, redis, favVars, pending>>
GetNames ==
    \E u \in Usernames :
        GetFavoriteLocations(u) /\ UNCHANGED <<rows, redis, favVars, pending>>

NextNames == RegisterOne \/ AddName \/ RemoveName \/ GetNames

SpecNames == Init /\ [][NextNames]_vars

\* the login route over a Favorites List that holds entries
NextLoginRoute == RegisterOne \/ HttpLogin \/ Add

SpecLoginRoute == Init /\ [][NextLoginRoute]_vars

(***************************************************************************)
(* Properties                                                              *)
(***************************************************************************)
\* the id-keyed cache key the read path consults
IdKey(id) == "location_" \o ToString(id)

\* a row with this id is in the store / is in the store and soft-deleted
Stored(id) == id \in DOMAIN rows
SoftDeleted(id) == id \in DOMAIN rows /\ rows[id].deleted

\* C1: after soft_delete(id) succeeded (the row of id has deleted = true),
\* every get_by_id(id) fails NotFound.
C1_ReadAfterDeleteNotFound ==
    [][(last'.op = "get_by_id" /\ SoftDeleted(last'.id))
          => last'.outcome = "NotFound"]_vars

\* the row with the fields a call names set to the values it gives
Assigned(row, kwargs) ==
    [f \in DOMAIN row |->
        IF \E i \in DOMAIN kwargs : kwargs[i] = f THEN KwValue(f) ELSE row[f]]

\* C2: the get_by_id(id) that directly follows a successful update(id, ...)
\* succeeds, is answered from the cache without a store query, and returns the
\* values the update gave.
C2_UpdateVisibleOnNextRead ==
    [][(last.op = "update" /\ last.outcome = "ok"
        /\ last'.op = "get_by_id" /\ last'.id = last.id)
          => /\ last'.outcome = "ok"
             /\ last'.src = "cache"
             /\ \A i \in DOMAIN last.kwargs :
                    last.kwargs[i] \in Fields
                        => last'.ret[last.kwargs[i]] = StrFloat(KwValue(last.kwargs[i]))]_vars

\* C3: the get_by_id of the new id that directly follows a create queries the
\* store and leaves the id-keyed entry holding every field as text; a
\* get_by_id that directly follows a successful get_by_id of the same id is
\* answered from the cache.
C3_FirstReadPopulatesCache ==
    [][/\ (last.op = "create" /\ last.outcome = "ok"
           /\ last'.op = "get_by_id" /\ last'.id = Len(rows))
             => /\ last'.outcome = "ok"
                /\ last'.src = "store"
                /\ IdKey(last'.id) \in DOMAIN redis'
                /\ redis'[IdKey(last'.id)] = Encode(rows[last'.id])
       /\ (last.op = "get_by_id" /\ last.outcome = "ok"
           /\ last'.op = "get_by_id" /\ last'.id = last.id)
             => last'.src = "cache"]_vars

\* C4: the get_by_id of the new id that directly follows a successful create
\* succeeds and returns deleted = false and the created field values.
C4_CreateThenGet ==
    [][(last.op = "create" /\ last.outcome = "ok"
        /\ last'.op = "get_by_id" /\ last'.id = Len(rows))
          => /\ last'.outcome = "ok"
             /\ last'.ret.deleted = FALSE
             /\ last'.ret.location = last.name
             /\ last'.ret.latitude = last.kwargs[1]
             /\ last'.ret.longitude = last.kwargs[2]
             /\ last'.ret.current_temperature = last.kwargs[3]
             /\ last'.ret.current_wind_speed = last.kwargs[4]
             /\ last'.ret.current_rain = last.kwargs[5]]_vars

\* some row of the store, deleted or not, has this name
NameInStore(name) == \E i \in DOMAIN rows : rows[i].location = name

\* C5 as stated: a create with a name the store already holds fails
\* DuplicateName and changes no row.
C5_DuplicateNameAnyFields ==
    [][(last'.op = "create" /\ NameInStore(last'.name))
          => (last'.outcome = "DuplicateName" /\ rows' = rows)]_vars

\* C5 amended: a create with a name the store already holds and a wind speed
\* >= 0 fails DuplicateName; a create with a name the store already holds
\* changes no row and no cache entry, whatever its other arguments.
C5_DuplicateNameValidFields ==
    [][(last'.op = "create" /\ NameInStore(last'.name))
          => /\ last'.kwargs[4] >= 0 => last'.outcome = "DuplicateName"
             /\ last'.outcome # "ok"
             /\ rows' = rows
             /\ redis' = redis]_vars

C5_Witness ==
    /\ last.op = "create"
    /\ last.outcome = "DuplicateName"
    /\ \E i \in DOMAIN rows : rows[i].location = last.name /\ rows[i].deleted

\* C6: soft_delete(id) fails NotFound without a row of that id, fails
\* AlreadyDeleted on a row with deleted = true, otherwise succeeds and sets
\* deleted = true of that row only; no step sets deleted back to false, so a
\* row is deleted successfully at most once.
C6_SoftDeleteOutcomes ==
    [][/\ last'.op = "soft_delete" =>
            /\ ~Stored(last'.id) => (last'.outcome = "NotFound" /\ rows' = rows)
            /\ SoftDeleted(last'.id) => (last'.outcome = "AlreadyDeleted" /\ rows' = rows)
            /\ (Stored(last'.id) /\ ~SoftDeleted(last'.id)) =>
                  /\ last'.outcome = "ok"
                  /\ rows' = [rows EXCEPT ![last'.id].deleted = TRUE]
       /\ \A i \in DOMAIN rows : rows[i].deleted => rows'[i].deleted]_vars

C6_Witness ==
    /\ last.op = "soft_delete"
    /\ last.outcome = "AlreadyDeleted"
    /\ SoftDeleted(last.id)

\* the texts that read as true in some letter case
TrueTexts == {"True", "true", "TRUE"}

\* C7: a get_by_id(id) that finds an id-keyed entry whose deleted field is
\* the text true in any letter case fails NotFound and returns nothing.
C7_CachedDeletedNotFound ==
    [][(/\ last'.op = "get_by_id"
        /\ IdKey(last'.id) \in DOMAIN redis
        /\ redis[IdKey(last'.id)]["deleted"] \in TrueTexts)
          => (last'.outcome = "NotFound" /\ last'.ret = NoRet)]_vars

C7_Witness ==
    /\ last.op = "get_by_id"
    /\ last.src = "cache"
    /\ last.outcome = "NotFound"
    /\ IdKey(last.id) \in DOMAIN redis
    /\ redis[IdKey(last.id)]["deleted"] = "True"
    /\ Stored(last.id) /\ ~SoftDeleted(last.id)

\* C8: an update of an existing non-deleted row that names only attributes of
\* the entity sets those fields of the row to the given values and changes
\* nothing else in the store.
C8_UpdateSetsFields ==
    [][(/\ last'.op = "update"
        /\ Stored(last'.id) /\ ~SoftDeleted(last'.id)
        /\ \A i \in DOMAIN last'.kwargs : last'.kwargs[i] \in Fields)
          => /\ last'.outcome = "ok"
             /\ rows' = [rows EXCEPT ![last'.id] = Assigned(rows[last'.id], last'.kwargs)]]_vars

\* C9: an update of an existing non-deleted row that names an attribute the
\* entity does not have fails InvalidAttribute and changes neither the store
\* nor the cache.
C9_InvalidAttributeRejected ==
    [][(/\ last'.op = "update"
        /\ Stored(last'.id) /\ ~SoftDeleted(last'.id)
        /\ \E i \in DOMAIN last'.kwargs : last'.kwargs[i] \notin Fields)
          => /\ last'.outcome = "InvalidAttribute"
             /\ rows' = rows
             /\ redis' = redis]_vars

\* C10: an update of an id without a row, or of a soft-deleted row, fails
\* NotFound and changes neither the store nor the cache.
C10_UpdateNotFound ==
    [][(last'.op = "update" /\ (~Stored(last'.id) \/ SoftDeleted(last'.id)))
          => /\ last'.outcome = "NotFound"
             /\ rows' = rows
             /\ redis' = redis]_vars

C10_Witness ==
    /\ last.op = "update"
    /\ last.outcome = "NotFound"
    /\ SoftDeleted(last.id)
    /\ IdKey(last.id) \in DOMAIN redis

\* the name-index cache key get_meal_by_name consults
NameKey(name) == "meal_name:" \o name

\* C11: after a successful soft_delete(id) the cache holds no entry under the
\* id key get_by_id(id) reads.
C11_DeleteRemovesReadKey ==
    [][(last'.op = "soft_delete" /\ last'.outcome = "ok")
          => IdKey(last'.id) \notin DOMAIN redis']_vars

\* a row of this name is in the store and soft-deleted / and not deleted
DeletedName(name) == \E i \in DOMAIN rows : rows[i].location = name /\ rows[i].deleted
LiveName(name) == \E i \in DOMAIN rows : rows[i].location = name /\ ~rows[i].deleted
RowNamed(name) == rows[CHOOSE i \in DOMAIN rows : rows[i].location = name]

\* C12: get_by_name(n) of a soft-deleted location named n fails NotFound,
\* with or without a name-index entry for n in the cache.
C12_ReadByNameAfterDeleteNotFound ==
    [][(last'.op = "get_by_name" /\ DeletedName(last'.name))
          => last'.outcome = "NotFound"]_vars

\* C13: get_by_name(n) without a name-index entry and with a non-deleted row
\* named n succeeds, writes n -> id, populates the id-keyed entry and returns
\* the row; with a name-index entry to an id that get_by_id fails NotFound on
\* (no row, no id-keyed entry) it fails NotFound as well.
C13_ReadByName ==
    [][/\ (last'.op = "get_by_name" /\ NameKey(last'.name) \notin DOMAIN redis
           /\ LiveName(last'.name))
             => /\ last'.outcome = "ok"
                /\ NameKey(last'.name) \in DOMAIN redis'
                /\ redis'[NameKey(last'.name)] = ToString(RowNamed(last'.name).id)
                /\ IdKey(RowNamed(last'.name).id) \in DOMAIN redis'
                /\ last'.ret = RowNamed(last'.name)
       /\ (last'.op = "get_by_name" /\ NameKey(last'.name) \in DOMAIN redis
           /\ \E i \in Ids : /\ redis[NameKey(last'.name)] = ToString(i)
                             /\ ~Stored(i)
                             /\ IdKey(i) \notin DOMAIN redis)
             => last'.outcome = "NotFound"]_vars

\* C14: a get_by_id(id) or get_by_name(n) on a cache miss that fails NotFound,
\* or whose location is missing or soft-deleted, leaves the cache unchanged.
C14_NegativeResultsNotCached ==
    [][/\ (last'.op = "get_by_id" /\ IdKey(last'.id) \notin DOMAIN redis
           /\ (last'.outcome = "NotFound" \/ ~Stored(last'.id) \/ SoftDeleted(last'.id)))
             => redis' = redis
       /\ (last'.op = "get_by_name" /\ NameKey(last'.name) \notin DOMAIN redis
           /\ (last'.outcome = "NotFound" \/ ~LiveName(last'.name)))
             => redis' = redis]_vars

C14_Witness ==
    /\ last.op = "get_by_id"
    /\ last.outcome = "NotFound"
    /\ last.src = "store"
    /\ IdKey(last.id) \notin DOMAIN redis
    /\ rows # <<>>

\* C15: in every reachable state of the Favorites List no two entries have
\* the same id.
C15_NoDuplicateIds ==
    \A i, j \in DOMAIN favorites : favorites[i].id = favorites[j].id => i = j

\* a login that met an id stored twice and stopped there
C15_Witness ==
    last.op = "login" /\ last.outcome = "DuplicateId" /\ favorites # <<>>

HasId(favs, id) == \E i \in DOMAIN favs : favs[i].id = id

IsAppended(before, after, id, name) ==
    /\ Len(after) = Len(before) + 1
    /\ SubSeq(after, 1, Len(before)) = before
    /\ after[Len(after)].id = id
    /\ after[Len(after)].location = name

\* C16 as stated: add of a location fails DuplicateId and leaves the list
\* unchanged when the id is present, and appends the location as the last
\* entry, the others unchanged, when the id is not present.
C16_AddAnyId ==
    [][(last'.op = "add" /\ last'.kwargs # <<"other">>)
          => IF HasId(favorites, last'.id)
             THEN last'.outcome = "DuplicateId" /\ favorites' = favorites
             ELSE last'.outcome = "ok"
                  /\ IsAppended(favorites, favorites', last'.id, last'.name)]_vars

\* C16 amended: add of a location fails DuplicateId and leaves the list
\* unchanged when the id is present, fails InvalidId and leaves the list
\* unchanged when the id is negative, and appends the location as the last
\* entry, the others unchanged, when the id is non-negative and not present.
C16_AddValidId ==
    [][(last'.op = "add" /\ last'.kwargs # <<"other">>)
          => IF HasId(favorites, last'.id)
             THEN last'.outcome = "DuplicateId" /\ favorites' = favorites
             ELSE IF last'.id < 0
             THEN last'.outcome = "InvalidId" /\ favorites' = favorites
             ELSE last'.outcome = "ok"
                  /\ IsAppended(favorites, favorites', last'.id, last'.name)]_vars

C16_Witness ==
    last.op = "add" /\ last.outcome = "ok" /\ Len(favorites) >= 2

\* the list without its entry at 1-based position p
RemoveAt(l, p) == SubSeq(l, 1, p - 1) \o SubSeq(l, p + 1, Len(l))

\* C17: remove_by_index(i) with 1 <= i <= length removes exactly the entry
\* at position i, remove_by_id(id) with id in the list removes exactly the
\* entry with that id; the list gets one shorter and the rest keep their order.
C17_RemoveExactlyOne ==
    [][/\ (last'.op = "remove_by_index" /\ last'.id \in 1..Len(favorites))
             => last'.outcome = "ok" /\ favorites' = RemoveAt(favorites, last'.id)
       /\ (last'.op = "remove_by_id" /\ HasId(favorites, last'.id))
             => /\ last'.outcome = "ok"
                /\ Len(favorites') = Len(favorites) - 1
                /\ ~HasId(favorites', last'.id)
                /\ \E p \in DOMAIN favorites :
                      favorites[p].id = last'.id /\ favorites' = RemoveAt(favorites, p)]_vars

\* the first of several entries has just been removed by position
C17_Witness ==
    last.op = "remove_by_index" /\ last.outcome = "ok" /\ last.id = 1 /\ favorites # <<>>

\* C18: both removals fail EmptyList on an empty list, and on a non-empty
\* list fail InvalidArgument (InvalidId, InvalidIndex) when the id is not in
\* the list or the index is outside [1, length]; the list and the current
\* position are unchanged by every such failure.
C18_RemoveFailures ==
    [][/\ (last'.op \in {"remove_by_id", "remove_by_index"} /\ favorites = <<>>)
             => /\ last'.outcome = "EmptyList"
                /\ UNCHANGED <<favorites, favorite_location>>
       /\ (last'.op = "remove_by_id" /\ favorites # <<>> /\ ~HasId(favorites, last'.id))
             => /\ last'.outcome = "InvalidId"
                /\ UNCHANGED <<favorites, favorite_location>>
       /\ (last'.op = "remove_by_index" /\ favorites # <<>>
           /\ last'.id \notin 1..Len(favorites))
             => /\ last'.outcome = "InvalidIndex"
                /\ UNCHANGED <<favorites, favorite_location>>]_vars

C18_Witness ==
    last.op = "remove_by_index" /\ last.outcome = "InvalidIndex" /\ favorites # <<>>

\* C19: set_current(k) succeeds for every k and stores k unchecked;
\* get_current() then fails EmptyList on an empty list, fails InvalidIndex on
\* a non-empty list when the stored k is outside [1, length], and otherwise
\* returns the entry at 1-based position k.
C19_DeferredValidation ==
    [][/\ last'.op = "set_current"
             => last'.outcome = "ok" /\ favorite_location' = last'.id
       /\ last'.op = "get_current"
             => IF favorites = <<>> THEN last'.outcome = "EmptyList"
                ELSE IF favorite_location \notin 1..Len(favorites)
                THEN last'.outcome = "InvalidIndex"
                ELSE last'.outcome = "ok" /\ last'.ret = favorites[favorite_location]]_vars

\* get_current() has just failed on a 2-element list whose stored position
\* is beyond the end
C19_Witness ==
    /\ last.op = "get_current" /\ last.outcome = "InvalidIndex"
    /\ Len(favorites) = 2 /\ favorite_location > 2

\* C20 as stated: with N >= 1 entries the current-favorite position lies in
\* [1, N].
C20_PositionInRange ==
    favorites # <<>> => favorite_location \in 1..Len(favorites)

\* C20 amended: the current-favorite position starts at 1 and is changed by
\* set_current only, and it lies in [1, N] whenever get_current() has just
\* succeeded.
C20_PositionCheckedOnRead ==
    /\ favorite_location = 1
    /\ [][/\ (last'.op = "get_current" /\ last'.outcome = "ok")
                => favorites' # <<>> /\ favorite_location' \in 1..Len(favorites')
          /\ favorite_location' # favorite_location => last'.op = "set_current"]_vars

C20_Witness ==
    last.op = "get_current" /\ last.outcome = "ok" /\ favorite_location = 2

\* C21: clear() never fails and always leaves the Favorites List empty, on
\* a non-empty and on an empty list alike.
C21_ClearNeverFails ==
    [][last'.op = "clear" => last'.outcome = "ok" /\ favorites' = <<>>]_vars

C21_Witness ==
    last.op = "clear" /\ last.outcome = "ok" /\ favorites = <<>>

\* the session documents with one more, empty, document for user_id
WithEmptySession(docs, user_id) ==
    [u \in DOMAIN docs \cup {user_id} |-> IF u = user_id THEN <<>> ELSE docs[u]]

\* C22: login with no session document for user_id inserts exactly one
\* document {user_id, favorites: []} and leaves the Favorites List as it was.
C22_LoginCreatesSession ==
    [][(last'.op = "login" /\ last'.id \notin DOMAIN sessions)
          => /\ last'.outcome = "ok"
             /\ sessions' = WithEmptySession(sessions, last'.id)
             /\ UNCHANGED <<favorites, favorite_location>>]_vars

\* a login that found no document: the list still holds entries and the new
\* document is empty
C22_Witness ==
    /\ last.op = "login" /\ last.outcome = "ok" /\ favorites # <<>>
    /\ last.id \in DOMAIN sessions /\ sessions[last.id] = <<>>

C24_LogoutUserNotFound ==
    [][(last'.op = "logout" /\ last'.id \notin DOMAIN sessions)
          => /\ last'.outcome = "UserNotFound"
             /\ UNCHANGED <<favorites, sessions>>]_vars

\* C25: logout with a matching session document replaces its favorites by
\* the current favorites in list order, then empties the Favorites List;
\* the documents of other users are unchanged.
C25_LogoutWritesThenClears ==
    [][(last'.op = "logout" /\ last'.id \in DOMAIN sessions)
          => /\ last'.outcome = "ok"
             /\ DOMAIN sessions' = DOMAIN sessions
             /\ Len(sessions'[last'.id]) = Len(favorites)
             /\ \A i \in DOMAIN favorites : sessions'[last'.id][i].id = favorites[i].id
             /\ \A u \in DOMAIN sessions \ {last'.id} : sessions'[u] = sessions[u]
             /\ favorites' = <<>>]_vars

\* C26: right after create(username, pw), check_password(username, pw)
\* returns true and check_password(username, other) returns false; a
\* check on an existing username never raises, and a check on a username
\* that was never created fails UserNotFound.
C26_PasswordCheck ==
    [][/\ (last'.op = "check_password" /\ last.op = "create_user"
           /\ last.outcome = "ok" /\ last'.name = last.name)
             => last'.outcome = "ok" /\ last'.ret = (last'.kwargs = last.kwargs)
       /\ (last'.op = "check_password" /\ QueryFirstByUsername(last'.name) # <<>>)
             => last'.outcome = "ok" /\ last'.ret \in BOOLEAN
       /\ (last'.op = "check_password" /\ QueryFirstByUsername(last'.name) = <<>>)
             => last'.outcome = "UserNotFound"]_vars

\* a check with another password than the stored one has returned false
C26_Witness ==
    last.op = "check_password" /\ last.outcome = "ok" /\ last.ret = FALSE

\* the request names a user that does not exist or carries a password that
\* is not the user's
AuthFails(username, password) ==
    LET found == QueryFirstByUsername(username)
    IN  found = <<>> \/ ~PasswordMatches(found[1], password)

\* C27: the login route answers 401 for every authentication failure, an
\* unknown username and a wrong password alike.
C27_LoginFailures401 ==
    [][(last'.op = "http_login" /\ last'.name # None
        /\ AuthFails(last'.name, last'.kwargs[1]))
          => last'.ret = 401]_vars

\* the row of the pending read has been changed since the read queried it
MutatedSinceQuery ==
    pending.active /\ pending.found # <<>> /\ QueryFirstById(pending.id) # pending.found

\* C28: when a soft delete or an update of the row runs between the store
\* query of a get_by_id on a cache miss and the rest of that read, the read
\* leaves the pre-mutation snapshot in the id-keyed cache entry.
C28_RaceLeavesStaleEntry ==
    [][(last'.op = "finish_get_by_id" /\ MutatedSinceQuery)
          => /\ IdKey(pending.id) \in DOMAIN redis'
             /\ redis'[IdKey(pending.id)] = Encode(pending.found[1])]_vars

C30_SoftDeleteIrreversible ==
    [][/\ \A id \in DOMAIN rows :
             rows[id].deleted => id \in DOMAIN rows' /\ rows'[id].deleted
       /\ (last'.op = "get_by_id" /\ SoftDeleted(last'.id)) => last'.outcome # "ok"
       /\ (last'.op = "get_by_name" /\ DeletedName(last'.name)) => last'.outcome # "ok"]_vars

\* a soft-deleted location has just been read by id, without success
C30_Witness ==
    last.op = "get_by_id" /\ SoftDeleted(last.id) /\ last.outcome # "ok"

\* the first five fields of the weather snapshot of a favorite
SnapshotFields(f) ==
    <<f.location, f.latitude, f.longitude, f.current_temperature, f.current_wind_speed>>

\* C31: weather_for_all_favorites() returns, in list order, the six-field
\* snapshot of every favorite (6 times the list length, empty on an empty
\* list, never failing); weather_for_current() returns the snapshot of the
\* current favorite and fails EmptyList on an empty list.
C31_WeatherSnapshots ==
    [][/\ last'.op = "weather_all"
             => /\ last'.outcome = "ok"
                /\ Len(last'.ret) = 6 * Len(favorites)
                /\ \A i \in DOMAIN favorites :
                      SubSeq(last'.ret, 6 * (i - 1) + 1, 6 * (i - 1) + 5)
                         = SnapshotFields(favorites[i])
       /\ (last'.op = "weather_current" /\ favorites = <<>>)
             => last'.outcome = "EmptyList"
       /\ (last'.op = "weather_current" /\ favorite_location \in 1..Len(favorites))
             => /\ last'.outcome = "ok"
                /\ Len(last'.ret) = 6
                /\ SubSeq(last'.ret, 1, 5) = SnapshotFields(favorites[favorite_location])]_vars

\* how many pieces of a list of names are the name
Occurrences(locations, name) ==
    Cardinality({k \in DOMAIN locations : locations[k] = <<name>>})

\* the committed row of a user
CommittedRow(table, id) == table[CHOOSE i \in DOMAIN table : table[i].id = id]

\* C32: after add_favorite_location(username, name) returns for an existing
\* user, the committed favorite-names field holds name exactly once, also
\* when it was empty before, and a name already present leaves it unchanged.
C32_AddNameCommitted ==
    [][(last'.op = "add_name" /\ last'.outcome = "ok")
          => LET before == CommittedRow(users, last'.id).favorite_locations
                 after == CommittedRow(users', last'.id).favorite_locations
                 name == last'.kwargs[1]
             IN  /\ after # <<>>
                 /\ Occurrences(Split(after), name) = 1
                 /\ (before # <<>> /\ InList(Split(before), <<name>>)) => after = before]_vars

C34_MissAndHitAgree ==
    [][(last'.op = "get_by_id" /\ IdKey(last'.id) \notin DOMAIN redis
        /\ Stored(last'.id) /\ ~SoftDeleted(last'.id))
          => /\ last'.outcome = "ok"
             /\ IdKey(last'.id) \in DOMAIN redis'
             /\ LocationData(redis'[IdKey(last'.id)]) = last'.ret]_vars

\* C35 as stated: create with a name whose only row is soft-deleted fails
\* DuplicateName.
C35_DeletedNameAnyFields ==
    [][(last'.op = "create" /\ DeletedName(last'.name))
          => last'.outcome = "DuplicateName"]_vars

\* C35 amended: create with a name whose only row is soft-deleted fails,
\* with DuplicateName when the wind speed is >= 0, and adds no row; no live
\* row of a soft-deleted name ever appears.
C35_DeletedNameReserved ==
    [][/\ (last'.op = "create" /\ DeletedName(last'.name))
             => /\ last'.kwargs[4] >= 0 => last'.outcome = "DuplicateName"
                /\ last'.outcome # "ok"
                /\ Len(rows') = Len(rows)
       /\ \A n \in Names :
             DeletedName(n)
                => \A i \in DOMAIN rows' : rows'[i].location = n => rows'[i].deleted]_vars

C35_Witness ==
    last.op = "create" /\ last.outcome = "DuplicateName" /\ DeletedName(last.name)

\* C36: logout then login is a round trip: logout(u) with a session
\* document and a list that holds favorites succeeds, and the login(u) that
\* follows loads from the document the locations the list held at the
\* logout, in the same order.
C36_LogoutLoginRoundTrip ==
    [][(last'.op = "logout" /\ last'.id \in DOMAIN sessions /\ favorites # <<>>)
          => /\ last'.outcome = "ok"
             /\ LoadFavorites(<<>>, sessions'[last'.id], 1)
                   = [favs |-> favorites, outcome |-> "ok"]]_vars

\* C37: a logout(u) that directly follows the login(u), with the list
\* empty, succeeds and stores an empty favorites array.
C37_LogoutOfEmptyList ==
    [][(last.op = "login" /\ last.outcome = "ok" /\ favorites = <<>>
        /\ last'.op = "logout" /\ last'.id = last.id)
          => last'.outcome = "ok" /\ sessions'[last'.id] = <<>>]_vars

C39_FailedLoginChangesNothing ==
    [][(last'.op = "http_login" /\ last'.name # None
        /\ AuthFails(last'.name, last'.kwargs[1]))
          => UNCHANGED <<favorites, favorite_location, sessions>>]_vars

\* a request with a wrong password was refused while the list held entries
C39_Witness ==
    last.op = "http_login" /\ last.ret = 401 /\ favorites # <<>>

====
